---- MODULE Spec2Model ----
(***************************************************************************)
(* The production-plan service of src/app.py: PowerPlant.calculate_cost,   *)
(* ProductionPlanCalculator (merit sort, wind pass, greedy dispatch, final *)
(* adjustment) and the /productionplan handler that runs every request     *)
(* through the one module-level calculator.                                *)
(*                                                                         *)
(* Power is counted in hundredths of a MW (480 MW is 48000), so that the   *)
(* code's 0.1 MW thresholds are 10 and round(x * 10) / 10 is a real        *)
(* rounding.  Prices are in tenths of a euro, efficiency in hundredths,    *)
(* the wind percentage in whole percent.  A cost per MWh is kept as the    *)
(* exact fraction <<numerator, denominator>>.  Arithmetic is exact: the    *)
(* representation error of the code's binary floating point is not         *)
(* modelled, and pmin and pmax are whole MW, as PowerPlant declares them.  *)
(*                                                                         *)
(* calculator.plants is a name that each call rebinds to a fresh list, so  *)
(* the lists are kept by identity (plants) beside the binding (cur): an    *)
(* append, a sort or an index goes to the list bound at that moment, an    *)
(* iterator stays on the list it was made from.                            *)
(***************************************************************************)
EXTENDS Integers, Sequences, FiniteSets, TLC

VARIABLES
  req,      \* req[t]: the payload thread t handles
  plants,   \* the list objects ever bound to calculator.plants, by identity
  cur,      \* which list object calculator.plants is bound to now
  frame     \* frame[t]: the locals of thread t's call, and its position

vars == <<req, plants, cur, frame>>

\* ------------------------------------------------------------------ bounds
\* Units per enumerated request.
MaxUnits == 3
\* Enumerated loads go up to MaxLoadHalves half-MW steps.
MaxLoadHalves == 10

Threads == {1, 2}

\* ------------------------------------------------------------ arithmetic
Min(a, b) == IF a <= b THEN a ELSE b
Max(a, b) == IF a >= b THEN a ELSE b
Abs(a) == IF a >= 0 THEN a ELSE -a

\* round(x * 10) / 10 of Python 3 (ties go to the even tenth), on hundredths.
Round10(x) ==
  LET q == x \div 10
      r == x % 10
  IN  IF r < 5 THEN 10 * q
      ELSE IF r > 5 THEN 10 * (q + 1)
      ELSE IF q % 2 = 0 THEN 10 * q ELSE 10 * (q + 1)

RECURSIVE SumP(_)
SumP(plan) == IF plan = <<>> THEN 0 ELSE Head(plan).p + SumP(Tail(plan))

\* ------------------------------------------------------------- PowerPlant
\* PowerPlant.__init__: pmin and pmax arrive as whole MW.
PowerPlant(name, d) ==
  [name |-> name, type |-> d.type, efficiency |-> d.efficiency,
   pmin |-> 100 * d.pmin, pmax |-> 100 * d.pmax,
   cost_per_mwh |-> <<0, 1>>, available_power |-> 0]

\* calculate_cost's wind branch had it rounded to the nearest MW instead of
\* truncating.
WindAvailableRounded(pmax, wind) == 100 * ((pmax * wind + 5000) \div 10000)

\* The wind branch of calculate_cost: int(pmax * wind_percentage / 100).
WindAvailable(pmax, wind) == 100 * ((pmax * wind) \div 10000)

calculate_cost(plant, fuels) ==
  IF plant.type = "windturbine"
  THEN [plant EXCEPT !.cost_per_mwh = <<0, 1>>,
                     !.available_power = WindAvailable(plant.pmax, fuels.wind)]
  ELSE IF plant.type = "gasfired"
  THEN [plant EXCEPT !.cost_per_mwh = <<fuels.gas + 3 * fuels.co2, plant.efficiency>>,
                     !.available_power = plant.pmax]
  ELSE IF plant.type = "turbojet"
  THEN [plant EXCEPT !.cost_per_mwh = <<fuels.kerosine, plant.efficiency>>,
                     !.available_power = plant.pmax]
  ELSE plant

\* The plant the k-th iteration of the construction loop appends.
BuiltPlant(r, k) == calculate_cost(PowerPlant(k, r.powerplants[k]), r.fuels)

\* ------------------------------------------------------------ merit order
CostLess(a, b) == a[1] * b[2] < b[1] * a[2]
CostEq(a, b) == a[1] * b[2] = b[1] * a[2]

\* The sort key (cost_per_mwh, -available_power), compared as tuples.
KeyLess(x, y) ==
  \/ CostLess(x.cost_per_mwh, y.cost_per_mwh)
  \/ /\ CostEq(x.cost_per_mwh, y.cost_per_mwh)
     /\ x.available_power > y.available_power

\* x goes after every element that does not come strictly after it.
RECURSIVE InsertStable(_, _)
InsertStable(x, s) ==
  IF s = <<>> THEN <<x>>
  ELSE IF KeyLess(x, Head(s)) THEN <<x>> \o s
  ELSE <<Head(s)>> \o InsertStable(x, Tail(s))

\* calculate_production_plan without the sort of line 71.
MeritSortSkipped(s) == s

\* list.sort(key=...): stable, ascending.
RECURSIVE MeritSort(_)
MeritSort(s) ==
  IF s = <<>> THEN <<>>
  ELSE InsertStable(s[Len(s)], MeritSort(SubSeq(s, 1, Len(s) - 1)))

\* ------------------------------------------------- _optimize_production
\* The locals of one call, before it has run.
NewFrame(start) ==
  [pc |-> start, k |-> 0, target_load |-> 0, remaining_load |-> 0,
   production_plan |-> <<>>, i |-> 0, it |-> 0, plant_indices |-> 0,
   made_progress |-> FALSE, response |-> [status |-> 0, body |-> <<>>],
   \* bookkeeping the claims read; the code keeps none of it
   rem_after_wind |-> 0, increments |-> 0, passes |-> 0, progress_passes |-> 0,
   sat_before |-> 0, stalled |-> FALSE, adjusted |-> FALSE]

IsConventional(plant) == plant.type # "windturbine"

\* How many conventional units of L the plan has at or above pmax.
Saturated(plan, L) ==
  Cardinality({j \in 1..Min(Len(plan), Len(L)) :
                 IsConventional(L[j]) /\ plan[j].p >= L[j].pmax})

\* Lines 90-91: one entry per plant of the list, in the list's order.
RECURSIVE ZeroPlan(_)
ZeroPlan(L) ==
  IF L = <<>> THEN <<>>
  ELSE <<[name |-> Head(L).name, p |-> 0]>> \o ZeroPlan(Tail(L))

\* Lines 86-94: remaining_load, the all-zero plan, and the wind pass's
\* iterator over the list object calculator.plants is bound to.
StartOptimize(f, L, id, load) ==
  [f EXCEPT !.pc = "wind", !.target_load = load, !.remaining_load = load,
            !.production_plan = ZeroPlan(L), !.i = 1, !.it = id]

\* The wind pass giving each turbine all it has, whatever load is left.
WindProductionUncapped(plant, remaining_load) == Round10(plant.available_power)

\* Lines 96-98: what a wind turbine is given.
WindProduction(plant, remaining_load) ==
  Round10(Min(plant.available_power, remaining_load))

\* One iteration of the wind pass (lines 94-101) over the iterated list L.
WindIter(f, L) ==
  LET plant == L[f.i]
      production == WindProduction(plant, f.remaining_load)
  IN  IF plant.type = "windturbine" /\ f.remaining_load > 0
      THEN IF f.i > Len(f.production_plan)
           THEN [f EXCEPT !.pc = "error"]               \* IndexError, line 99
           ELSE [f EXCEPT !.production_plan[f.i].p = production,
                          !.remaining_load = f.remaining_load - production,
                          !.i = f.i + 1]
      ELSE [f EXCEPT !.i = f.i + 1]

\* Line 104: plant_indices = list(range(len(self.plants))).
WindDone(f, L) ==
  [f EXCEPT !.pc = "while", !.plant_indices = Len(L),
            !.rem_after_wind = f.remaining_load]

\* Line 106, and line 107 when the loop is entered.
WhileTest(f, L) ==
  IF f.remaining_load > 10
  THEN [f EXCEPT !.pc = "visit", !.made_progress = FALSE, !.i = 1,
                 !.sat_before = Saturated(f.production_plan, L)]
  ELSE [f EXCEPT !.pc = "final"]

\* The guard of line 127 looking at pmax alone, not at the load that is left.
MaxPossibleIgnoringLoad(plant, current_production, remaining_load) == plant.pmax

\* Lines 118-125.
MinIncrement(plant, current_production) ==
  IF current_production = 0 THEN Max(plant.pmin, 10) ELSE 10

MaxPossible(plant, current_production, remaining_load) ==
  Min(plant.pmax, remaining_load + current_production)

\* The greedy pass adding only the smallest step it allows itself (pmin to
\* start a unit, 0.1 MW after that).
IncrementSmallest(plant, current_production, remaining_load) ==
  Round10(MinIncrement(plant, current_production))

\* Lines 129-136.
Increment(plant, current_production, remaining_load) ==
  Round10(IF current_production = 0
          THEN Max(Min(remaining_load, plant.pmax), plant.pmin)
          ELSE Min(remaining_load, plant.pmax - current_production))

\* Lines 147-149, reached when the for loop ends or breaks.
PassEnd(f) ==
  IF f.made_progress
  THEN [f EXCEPT !.pc = "while", !.passes = f.passes + 1,
                 !.progress_passes = f.progress_passes + 1]
  ELSE [f EXCEPT !.pc = "final", !.passes = f.passes + 1, !.stalled = TRUE]

\* One iteration of the for loop of the greedy pass (lines 109-145) over the
\* list L calculator.plants is bound to, or the end of the pass.
GreedyVisit(f, L) ==
  IF f.i > f.plant_indices THEN PassEnd(f)
  ELSE IF f.i > Len(L) \/ f.i > Len(f.production_plan)
  THEN [f EXCEPT !.pc = "error"]                        \* IndexError, lines 110-111
  ELSE
    LET plant == L[f.i]
        current_production == f.production_plan[f.i].p
        increment == Increment(plant, current_production, f.remaining_load)
        applied ==
          [f EXCEPT !.production_plan[f.i].p = Round10(current_production + increment),
                    !.remaining_load = Round10(f.remaining_load - increment),
                    !.made_progress = TRUE,
                    !.increments = f.increments + 1,
                    !.i = f.i + 1]
    IN  IF plant.type = "windturbine" \/ current_production >= plant.pmax
        THEN [f EXCEPT !.i = f.i + 1]
        ELSE IF MaxPossible(plant, current_production, f.remaining_load)
                  >= MinIncrement(plant, current_production)
                /\ increment >= 10
        THEN IF applied.remaining_load <= 10 THEN PassEnd(applied) ELSE applied
        ELSE [f EXCEPT !.i = f.i + 1]

\* Line 162: the unit the final adjustment may move.
Adjustable(plant, new_production) ==
  plant.pmin <= new_production /\ new_production <= plant.pmax

\* Lines 158-164: the first active entry from the end that the adjustment fits;
\* 0 when none does, -1 when self.plants[i] raises IndexError.
RECURSIVE AdjustIndex(_, _, _, _)
AdjustIndex(plan, L, difference, i) ==
  IF i = 0 THEN 0
  ELSE IF plan[i].p > 0
  THEN IF i > Len(L) THEN -1
       ELSE IF Adjustable(L[i], plan[i].p + difference) THEN i
       ELSE AdjustIndex(plan, L, difference, i - 1)
  ELSE AdjustIndex(plan, L, difference, i - 1)

\* Lines 151-166.
FinalAdjust(f, L) ==
  LET difference == f.target_load - SumP(f.production_plan)
      i == AdjustIndex(f.production_plan, L, difference, Len(f.production_plan))
  IN  IF Abs(difference) > 10
      THEN IF i = -1 THEN [f EXCEPT !.pc = "error"]
           ELSE IF i = 0 THEN [f EXCEPT !.pc = "return"]
           ELSE [f EXCEPT !.pc = "return", !.adjusted = TRUE,
                          !.production_plan[i].p =
                              Round10(f.production_plan[i].p + difference)]
      ELSE [f EXCEPT !.pc = "return"]

\* production_plan (the handler), lines 186-196: jsonify(plan) with 200, or
\* the except branch's 500.
Respond(f) ==
  IF f.pc = "error"
  THEN [f EXCEPT !.pc = "done", !.response = [status |-> 500, body |-> <<>>]]
  ELSE [f EXCEPT !.pc = "done",
                 !.response = [status |-> 200, body |-> f.production_plan]]

\* The whole of calculate_production_plan and the handler's reply for request
\* r when no other request is in flight: the same steps, run to the end on
\* the request's own sorted list.
RECURSIVE RunFrom(_, _)
RunFrom(f, L) ==
  IF f.pc = "done" THEN f
  ELSE IF f.pc = "wind"
  THEN RunFrom(IF f.i <= Len(L) THEN WindIter(f, L) ELSE WindDone(f, L), L)
  ELSE IF f.pc = "while" THEN RunFrom(WhileTest(f, L), L)
  ELSE IF f.pc = "visit" THEN RunFrom(GreedyVisit(f, L), L)
  ELSE IF f.pc = "final" THEN RunFrom(FinalAdjust(f, L), L)
  ELSE RunFrom(Respond(f), L)

\* Lines 53-68 with nothing else in flight: the plants in payload order.
RECURSIVE BuiltPlants(_, _)
BuiltPlants(r, n) ==
  IF n = 0 THEN <<>> ELSE Append(BuiltPlants(r, n - 1), BuiltPlant(r, n))

MeritOrder(r) == MeritSort(BuiltPlants(r, Len(r.powerplants)))

RunAlone(r) ==
  RunFrom(StartOptimize(NewFrame("optimize"), MeritOrder(r), 0, r.load),
          MeritOrder(r))

\* --------------------------------------------------------------- requests
Unit(type, efficiency, pmin, pmax) ==
  [type |-> type, efficiency |-> efficiency, pmin |-> pmin, pmax |-> pmax]

\* The unit kinds of the enumerated requests (efficiency in hundredths, pmin
\* and pmax in MW).
Catalog ==
  { Unit("gasfired", 53, 1, 1),
    Unit("gasfired", 53, 2, 3),
    Unit("gasfired", 37, 0, 2),
    Unit("turbojet", 30, 1, 2),
    Unit("windturbine", 100, 0, 3) }

Fleets == UNION {[1..n -> Catalog] : n \in 0..MaxUnits}

\* Loads in hundredths of a MW: half-MW steps, on the 0.1 MW grid and off it.
Loads == {50 * h + d : h \in 0..MaxLoadHalves, d \in {0, 4, 17, 30}}

WindPercentages == {60, 100}

Fuels(wind) == [gas |-> 134, kerosine |-> 508, co2 |-> 20, wind |-> wind]

\* payload1 of src/test_api.py.
payload1 ==
  [load |-> 48000, fuels |-> Fuels(60),
   powerplants |-> << Unit("gasfired", 53, 100, 460),
                      Unit("gasfired", 53, 100, 460),
                      Unit("gasfired", 37, 40, 210),
                      Unit("turbojet", 30, 0, 16),
                      Unit("windturbine", 100, 0, 150),
                      Unit("windturbine", 100, 0, 36) >>]

Requests ==
  {[load |-> l, fuels |-> Fuels(w), powerplants |-> u] :
     l \in Loads, w \in WindPercentages, u \in Fleets} \cup {payload1}

\* The requests of the two-thread specification.
ConcRequests ==
  { [load |-> 100, fuels |-> Fuels(100),
     powerplants |-> << Unit("gasfired", 53, 1, 1) >>],
    [load |-> 200, fuels |-> Fuels(100),
     powerplants |-> << Unit("gasfired", 37, 0, 2), Unit("windturbine", 100, 0, 3) >>],
    [load |-> 300, fuels |-> Fuels(60),
     powerplants |-> << Unit("windturbine", 100, 0, 3), Unit("gasfired", 53, 2, 3) >>] }

NoRequest == [load |-> 0, fuels |-> Fuels(0), powerplants |-> <<>>]

\* ---------------------------------------------------------------- actions
\* Line 53: self.plants = [] binds calculator.plants to a fresh list.
ResetPlants(t) ==
  /\ frame[t].pc = "reset"
  /\ plants' = [plants EXCEPT ![t] = <<>>]
  /\ cur' = t
  /\ frame' = [frame EXCEPT ![t].pc = "build"]
  /\ UNCHANGED req

\* Lines 54-68: one iteration; the append goes to whatever list
\* calculator.plants is bound to when it runs.
AppendPlant(t) ==
  /\ frame[t].pc = "build"
  /\ frame[t].k < Len(req[t].powerplants)
  /\ plants' = [plants EXCEPT ![cur] = Append(@, BuiltPlant(req[t], frame[t].k + 1))]
  /\ frame' = [frame EXCEPT ![t].k = @ + 1]
  /\ UNCHANGED <<req, cur>>

\* Line 71.
SortPlants(t) ==
  /\ frame[t].pc = "build"
  /\ frame[t].k = Len(req[t].powerplants)
  /\ plants' = [plants EXCEPT ![cur] = MeritSort(@)]
  /\ frame' = [frame EXCEPT ![t].pc = "optimize"]
  /\ UNCHANGED <<req, cur>>

\* Lines 76 and 86-94.
EnterOptimize(t) ==
  /\ frame[t].pc = "optimize"
  /\ frame' = [frame EXCEPT ![t] = StartOptimize(@, plants[cur], cur, req[t].load)]
  /\ UNCHANGED <<req, plants, cur>>

WindStep(t) ==
  /\ frame[t].pc = "wind"
  /\ frame[t].i <= Len(plants[frame[t].it])
  /\ frame' = [frame EXCEPT ![t] = WindIter(@, plants[frame[t].it])]
  /\ UNCHANGED <<req, plants, cur>>

WindExit(t) ==
  /\ frame[t].pc = "wind"
  /\ frame[t].i > Len(plants[frame[t].it])
  /\ frame' = [frame EXCEPT ![t] = WindDone(@, plants[cur])]
  /\ UNCHANGED <<req, plants, cur>>

WhileStep(t) ==
  /\ frame[t].pc = "while"
  /\ frame' = [frame EXCEPT ![t] = WhileTest(@, plants[cur])]
  /\ UNCHANGED <<req, plants, cur>>

VisitStep(t) ==
  /\ frame[t].pc = "visit"
  /\ frame' = [frame EXCEPT ![t] = GreedyVisit(@, plants[cur])]
  /\ UNCHANGED <<req, plants, cur>>

FinalStep(t) ==
  /\ frame[t].pc = "final"
  /\ frame' = [frame EXCEPT ![t] = FinalAdjust(@, plants[cur])]
  /\ UNCHANGED <<req, plants, cur>>

Reply(t) ==
  /\ frame[t].pc \in {"return", "error"}
  /\ frame' = [frame EXCEPT ![t] = Respond(@)]
  /\ UNCHANGED <<req, plants, cur>>

Step(t) ==
  \/ ResetPlants(t)
  \/ AppendPlant(t)
  \/ SortPlants(t)
  \/ EnterOptimize(t)
  \/ WindStep(t)
  \/ WindExit(t)
  \/ WhileStep(t)
  \/ VisitStep(t)
  \/ FinalStep(t)
  \/ Reply(t)

Next == \E t \in Threads : Step(t)

\* calculator = ProductionPlanCalculator() (line 168): plants = [].
NoPlants == [id \in {0} \cup Threads |-> <<>>]

\* One request, handled by thread 1 with nothing else in flight.
Init ==
  /\ \E r \in Requests : req = [t \in Threads |-> IF t = 1 THEN r ELSE NoRequest]
  /\ plants = NoPlants
  /\ cur = 0
  /\ frame = [t \in Threads |-> NewFrame(IF t = 1 THEN "reset" ELSE "idle")]

Spec == Init /\ [][Next]_vars

\* Two requests in flight at once, one per server thread.
InitConc ==
  /\ req \in [Threads -> ConcRequests]
  /\ plants = NoPlants
  /\ cur = 0
  /\ frame = [t \in Threads |-> NewFrame("reset")]

SpecConc == InitConc /\ [][Next]_vars

\* ----------------------------------------------------------------- claims
\* The claims about one computation are read off thread 1 of Spec.
Done == frame[1].pc = "done"
Returned == Done /\ frame[1].response.status = 200
Plan == frame[1].response.body

\* The unit a plan entry names, with its derived cost and availability.
PlantOf(e) == BuiltPlant(req[1], e.name)

RECURSIVE SumAvailable(_)
SumAvailable(L) ==
  IF L = <<>> THEN 0 ELSE Head(L).available_power + SumAvailable(Tail(L))

TotalCapacity(r) == SumAvailable(BuiltPlants(r, Len(r.powerplants)))

RECURSIVE SumWind(_)
SumWind(L) ==
  IF L = <<>> THEN 0
  ELSE (IF Head(L).type = "windturbine" THEN Head(L).available_power ELSE 0)
       + SumWind(Tail(L))

WindCapacity(r) == SumWind(BuiltPlants(r, Len(r.powerplants)))

\* C1: whenever the total available capacity is at least the load, the
\* returned plan's total is within 0.1 MW of the load.
C1_LoadConservation ==
  (Returned /\ TotalCapacity(req[1]) >= req[1].load)
    => Abs(SumP(Plan) - req[1].load) <= 10

\* C2: in the returned plan every gas or turbojet entry is 0 or within
\* [pmin, pmax], and every wind entry is within [0, availableCapacity].
C2_Bounds ==
  Returned =>
    \A j \in 1..Len(Plan) :
      LET plant == PlantOf(Plan[j])
          p == Plan[j].p
      IN  IF plant.type = "windturbine"
          THEN 0 <= p /\ p <= plant.available_power
          ELSE p = 0 \/ (plant.pmin <= p /\ p <= plant.pmax)

\* C3: when capacity falls short of the load, or the greedy dispatch stalls,
\* the request does not end in the normal reply carrying a plan.
C3_ShortfallSignalled ==
  (Done /\ (TotalCapacity(req[1]) < req[1].load \/ frame[1].stalled))
    => frame[1].response.status # 200

\* C4: the returned plan has one entry per unit of the request, the i-th
\* carrying the name of the i-th unit of the payload.
C4_InputOrder ==
  Returned =>
    /\ Len(Plan) = Len(req[1].powerplants)
    /\ \A j \in 1..Len(Plan) : Plan[j].name = j

\* C5: under every interleaving of two requests, each reply is the reply the
\* request gets when it runs alone.
C5_Isolation ==
  \A t \in Threads :
    frame[t].pc = "done" => frame[t].response = RunAlone(req[t]).response

\* Entries x and y of the plan are conventional units, x strictly cheaper,
\* and y produces.
CheaperWhileProducing(x, y) ==
  /\ IsConventional(PlantOf(Plan[x]))
  /\ IsConventional(PlantOf(Plan[y]))
  /\ CostLess(PlantOf(Plan[x]).cost_per_mwh, PlantOf(Plan[y]).cost_per_mwh)
  /\ Plan[y].p > 0

\* C6 as stated: a conventional unit produces only when every strictly
\* cheaper conventional unit is at its pmax.
C6_MeritSaturationStrict ==
  Returned =>
    \A x, y \in 1..Len(Plan) :
      CheaperWhileProducing(x, y) => Plan[x].p >= PlantOf(Plan[x]).pmax

\* C6 as amended: a conventional unit produces only when every strictly
\* cheaper conventional unit is at its pmax, or is idle with a pmin above the
\* load left over by the entries ahead of it in the plan.
C6_MeritSaturation ==
  Returned =>
    \A x, y \in 1..Len(Plan) :
      CheaperWhileProducing(x, y) =>
        \/ Plan[x].p = PlantOf(Plan[x]).pmax
        \/ /\ Plan[x].p = 0
           /\ PlantOf(Plan[x]).pmin > req[1].load - SumP(SubSeq(Plan, 1, x - 1))

\* A cheaper conventional unit is idle, below its pmin, while a dearer one
\* produces.
C6_Witness ==
  /\ Returned
  /\ \E x, y \in 1..Len(Plan) :
       /\ CheaperWhileProducing(x, y)
       /\ Plan[x].p = 0
       /\ PlantOf(Plan[x]).pmax > 0
  /\ \E x, y \in 1..Len(Plan) :
       /\ CheaperWhileProducing(x, y)
       /\ Plan[x].p = PlantOf(Plan[x]).pmax
       /\ Plan[x].p > 0

\* What the plan gives the unit the payload lists k-th.
POf(k) ==
  LET js == {j \in 1..Len(Plan) : Plan[j].name = k}
  IN  IF js = {} THEN -1 ELSE Plan[CHOOSE j \in js : TRUE].p

\* C7: payload1 gives the wind units 90 and 21 MW of availability and the
\* plan wind 90 and 21, the first big gas unit 369, every other unit 0,
\* summing to 480 with no final adjustment.
C7_Payload1 ==
  (Done /\ req[1] = payload1) =>
    /\ frame[1].response.status = 200
    /\ Len(Plan) = 6
    /\ PlantOf([name |-> 5]).available_power = 9000
    /\ PlantOf([name |-> 6]).available_power = 2100
    /\ POf(5) = 9000 /\ POf(6) = 2100 /\ POf(1) = 36900
    /\ POf(2) = 0 /\ POf(3) = 0 /\ POf(4) = 0
    /\ SumP(Plan) = 48000
    /\ ~frame[1].adjusted

C7_Witness == Done /\ req[1] = payload1 /\ frame[1].increments = 1

\* The wind units alone can carry the load.
WindCovers == WindCapacity(req[1]) >= req[1].load

AfterWindPass == frame[1].pc \in {"while", "visit", "final", "return", "done"}

ConventionalIdle(plan) ==
  \A j \in 1..Len(plan) : IsConventional(PlantOf(plan[j])) => plan[j].p = 0

\* C8 as stated: when the wind units can carry the load, the wind pass
\* leaves a remaining load of 0, the greedy loop applies no increment and
\* every gas or turbojet entry of the plan is 0.
C8_WindCoversExact ==
  (WindCovers /\ AfterWindPass) =>
    /\ frame[1].rem_after_wind = 0
    /\ frame[1].increments = 0
    /\ ConventionalIdle(frame[1].production_plan)

\* C8 as amended: when the wind units can carry the load, the wind pass
\* leaves a remaining load of at most 0.1 MW either way, the greedy loop
\* applies no increment and every gas or turbojet entry of the plan is 0.
C8_WindCovers ==
  (WindCovers /\ AfterWindPass) =>
    /\ Abs(frame[1].rem_after_wind) <= 10
    /\ frame[1].increments = 0
    /\ ConventionalIdle(frame[1].production_plan)

\* Wind carries a positive load next to a conventional unit that stays idle,
\* and rounding leaves a remainder.
C8_Witness ==
  /\ Returned /\ WindCovers /\ req[1].load > 10
  /\ frame[1].rem_after_wind # 0
  /\ \E j \in 1..Len(Plan) : IsConventional(PlantOf(Plan[j]))
  /\ \E j \in 1..Len(Plan) : ~IsConventional(PlantOf(Plan[j])) /\ Plan[j].p > 0

\* The conventional units of the request.
CostBearing(r) ==
  Cardinality({k \in 1..Len(r.powerplants) : r.powerplants[k].type # "windturbine"})

\* C9: the greedy loop ends after a bounded number of passes; a pass that
\* applied an increment brought the remaining load to 0.1 MW or less, or one
\* more conventional unit to its pmax, so at most as many passes apply an
\* increment as there are conventional units.
C9_BoundedPasses ==
  /\ frame[1].passes <= CostBearing(req[1]) + 1
  /\ frame[1].progress_passes <= CostBearing(req[1])
  /\ frame[1].pc = "visit" => frame[1].i <= frame[1].plant_indices + 1
  /\ (frame[1].pc = "while" /\ frame[1].made_progress) =>
       \/ frame[1].remaining_load <= 10
       \/ Saturated(frame[1].production_plan, plants[cur]) > frame[1].sat_before

\* A pass applied an increment and load remains, then the next pass stalled.
C9_Witness ==
  /\ Done
  /\ frame[1].progress_passes = 1
  /\ frame[1].passes = 2
  /\ frame[1].stalled

\* C10: no step sets a plan entry that is above 0 back to 0, and the steps
\* of the greedy dispatch never lower an entry.
C10_NoActiveToIdle ==
  [][\A j \in 1..Len(frame[1].production_plan) :
       j <= Len(frame'[1].production_plan) =>
         /\ frame[1].production_plan[j].p > 0 => frame'[1].production_plan[j].p > 0
         /\ frame[1].pc = "visit" =>
              frame'[1].production_plan[j].p >= frame[1].production_plan[j].p]_vars

\* The wind pass, a greedy increment and the final adjustment have all acted,
\* on units that were already producing.
C10_Witness ==
  /\ Returned
  /\ frame[1].adjusted
  /\ frame[1].increments > 0
  /\ \E j \in 1..Len(Plan) : ~IsConventional(PlantOf(Plan[j])) /\ Plan[j].p > 0
====
